---- MODULE Spec2Model ----
(***************************************************************************)
(* Model of naverapieda/dashboard.py: a Streamlit script that loads two    *)
(* CSV series through a process-wide st.cache_data memo and re-runs from   *)
(* top to bottom on every widget interaction of a browser session.         *)
(*                                                                         *)
(* Text (file names, CSV cells, stringified fields, search patterns) is    *)
(* modelled as sequences of one-character strings so that parsing,         *)
(* formatting, lexicographic order and pattern search are computed.        *)
(***************************************************************************)
EXTENDS Integers, Sequences, FiniteSets, TLC

\* ------------------------------------------------------------------ text

Digits == <<"0", "1", "2", "3", "4", "5", "6", "7", "8", "9">>

IsDigit(c) == \E i \in 1..10 : Digits[i] = c

DigitVal(c) == (CHOOSE i \in 1..10 : Digits[i] = c) - 1

\* str.lower() on the characters that occur in the stringified table.
Lower(c) ==
    CASE c = "F" -> "f"
      [] c = "M" -> "m"
      [] c = "S" -> "s"
      [] c = "T" -> "t"
      [] c = "W" -> "w"
      [] OTHER -> c

\* str(int) for a non-negative integer.
RECURSIVE IntToStr(_)
IntToStr(n) ==
    IF n < 10 THEN <<Digits[n + 1]>>
    ELSE Append(IntToStr(n \div 10), Digits[(n % 10) + 1])

\* Zero-padded two-digit field, as in strftime's %m and %d.
Pad2(n) == IF n < 10 THEN <<"0">> \o IntToStr(n) ELSE IntToStr(n)

IsNumeric(s) == s # <<>> /\ \A i \in DOMAIN s : IsDigit(s[i])

\* int(text) of a digit string.
RECURSIVE StrToInt(_)
StrToInt(s) ==
    IF s = <<>> THEN 0
    ELSE 10 * StrToInt(SubSeq(s, 1, Len(s) - 1)) + DigitVal(s[Len(s)])

\* ------------------------------------------------------------- calendar

\* pd.to_datetime on one cell: an ISO "YYYY-MM-DD" text parses, anything
\* else raises.
IsIsoDate(s) ==
    /\ Len(s) = 10
    /\ s[5] = "-" /\ s[8] = "-"
    /\ \A i \in {1, 2, 3, 4, 6, 7, 9, 10} : IsDigit(s[i])
    /\ StrToInt(SubSeq(s, 6, 7)) \in 1..12
    /\ StrToInt(SubSeq(s, 9, 10)) \in 1..31

ParseDate(s) ==
    [y |-> StrToInt(SubSeq(s, 1, 4)),
     m |-> StrToInt(SubSeq(s, 6, 7)),
     d |-> StrToInt(SubSeq(s, 9, 10))]

\* Days since 1970-01-01 in the proleptic Gregorian calendar.
DaysFromCivil(p) ==
    LET yy  == IF p.m <= 2 THEN p.y - 1 ELSE p.y
        era == yy \div 400
        yoe == yy - era * 400
        mp  == IF p.m > 2 THEN p.m - 3 ELSE p.m + 9
        doy == (153 * mp + 2) \div 5 + p.d - 1
        doe == yoe * 365 + yoe \div 4 - yoe \div 100 + doy
    IN  era * 146097 + doe - 719468

\* Series.dt.dayofweek: Monday = 0 ... Sunday = 6 (1970-01-01 was a Thursday).
DayOfWeek(p) == (DaysFromCivil(p) + 3) % 7

DayNames ==
    <<"Monday", "Tuesday", "Wednesday", "Thursday", "Friday", "Saturday", "Sunday">>

\* Series.dt.day_name()
DayName(p) == DayNames[DayOfWeek(p) + 1]

\* Series.dt.quarter
Quarter(p) == ((p.m - 1) \div 3) + 1

\* str() of a datetime64 cell at midnight.
DateStr(p) == IntToStr(p.y) \o <<"-">> \o Pad2(p.m) \o <<"-">> \o Pad2(p.d)

\* The character sequence of a text that the model writes as a TLA+ string.
Chars(w) ==
    CASE w = "Monday"    -> <<"M", "o", "n", "d", "a", "y">>
      [] w = "Tuesday"   -> <<"T", "u", "e", "s", "d", "a", "y">>
      [] w = "Wednesday" -> <<"W", "e", "d", "n", "e", "s", "d", "a", "y">>
      [] w = "Thursday"  -> <<"T", "h", "u", "r", "s", "d", "a", "y">>
      [] w = "Friday"    -> <<"F", "r", "i", "d", "a", "y">>
      [] w = "Saturday"  -> <<"S", "a", "t", "u", "r", "d", "a", "y">>
      [] w = "Sunday"    -> <<"S", "u", "n", "d", "a", "y">>
      [] w = "True"      -> <<"T", "r", "u", "e">>
      [] w = "False"     -> <<"F", "a", "l", "s", "e">>
      [] w = "nan"       -> <<"n", "a", "n">>
      [] w = "2024"      -> <<"2", "0", "2", "4">>
      [] w = "2025"      -> <<"2", "0", "2", "5">>
      [] w = "2023-12-25" -> <<"2", "0", "2", "3", "-", "1", "2", "-", "2", "5">>
      [] w = "2024-02-29" -> <<"2", "0", "2", "4", "-", "0", "2", "-", "2", "9">>
      [] w = "2024-07-06" -> <<"2", "0", "2", "4", "-", "0", "7", "-", "0", "6">>
      [] w = "2025-01-05" -> <<"2", "0", "2", "5", "-", "0", "1", "-", "0", "5">>
      [] w = "2025-13-01" -> <<"2", "0", "2", "5", "-", "1", "3", "-", "0", "1">>
      [] w = "4"         -> <<"4">>
      [] w = "5"         -> <<"5">>
      [] w = "7"         -> <<"7">>
      [] w = "8"         -> <<"8">>
      [] w = "10"        -> <<"1", "0">>
      [] w = "12"        -> <<"1", "2">>
      [] w = "20"        -> <<"2", "0">>
      [] w = "30"        -> <<"3", "0">>
      [] w = "n/a"       -> <<"n", "/", "a">>
      [] w = "sat"       -> <<"s", "a", "t">>
      [] w = "0.5"       -> <<"0", ".", "5">>
      [] w = "("         -> <<"(">>
      [] w = ""          -> <<>>

\* ----------------------------------------------------------- filesystem

\* possible_paths, in the order the loader tries them.
possible_paths == <<"data", "naverapieda/data">>

\* A file name "<series>_search_trend_<tag>.csv"; series "s" stands for the
\* brand prefix and "g" for the gift-card prefix of the two glob patterns.
FileNames ==
    {[series |-> "s", tag |-> "2024"],
     [series |-> "s", tag |-> "2025"],
     [series |-> "g", tag |-> "2024"]}

\* What a file can hold: a well-formed table, or one of the malformed shapes.
Variants(f) ==
    IF f.series = "s" /\ f.tag = "2024" THEN {"ok", "noperiod", "badnum"}
    ELSE IF f.series = "s" THEN {"ok"}
    ELSE {"ok", "noratio", "baddate"}

CsvRow(p, r) == [period |-> Chars(p), ratio |-> Chars(r)]

\* The text of a file: its header and its data lines, cell by cell.
Csv(f, variant) ==
    CASE variant = "noperiod" ->
           [header |-> <<"ratio">>, rows |-> <<[ratio |-> Chars("10")]>>]
      [] variant = "noratio" ->
           [header |-> <<"period">>, rows |-> <<[period |-> Chars("2024-02-29")]>>]
      [] variant = "badnum" ->
           [header |-> <<"period", "ratio">>,
            rows |-> <<CsvRow("2024-02-29", "10"), CsvRow("2025-01-05", "n/a")>>]
      [] variant = "baddate" ->
           [header |-> <<"period", "ratio">>,
            rows |-> <<CsvRow("2024-02-29", "4"), CsvRow("2025-13-01", "8")>>]
      [] variant = "ok" /\ f.series = "s" /\ f.tag = "2024" ->
           [header |-> <<"period", "ratio">>,
            rows |-> <<CsvRow("2024-02-29", "10"), CsvRow("2024-07-06", "30"),
                       CsvRow("2025-01-05", "20")>>]
      [] variant = "ok" /\ f.series = "s" ->
           [header |-> <<"period", "ratio">>,
            rows |-> <<CsvRow("2023-12-25", "5"), CsvRow("2024-02-29", "12"),
                       CsvRow("2025-01-05", "7")>>]
      [] variant = "ok" ->
           [header |-> <<"period", "ratio">>,
            rows |-> <<CsvRow("2024-02-29", "4"), CsvRow("2025-01-05", "8")>>]

NoFiles == [f \in FileNames |-> "absent"]

\* The local checkout's directory holds one well-formed file per series
\* whenever it exists; the files of "data" are the variable part.
LocalFiles ==
    [f \in FileNames |-> IF f.tag = "2024" THEN "ok" ELSE "absent"]

FilesIn(filesystem, d) == IF d = "data" THEN filesystem.files ELSE LocalFiles

\* os.path.exists
PathExists(filesystem, d) == d \in filesystem.dirs

\* The set of names glob.glob matches for one series' pattern in directory d.
GlobMatches(filesystem, d, series) ==
    {f \in FileNames : f.series = series /\ FilesIn(filesystem, d)[f] # "absent"}

\* Every order in which directory enumeration can return a set of names.
Orders(S) ==
    {o \in [1..Cardinality(S) -> S] : \A i, j \in DOMAIN o : i # j => o[i] # o[j]}

\* --------------------------------------------------------------- loader

Contains(seq, e) == \E i \in DOMAIN seq : seq[i] = e

\* A table: its columns in order, the dtype pandas infers for `ratio`, and its
\* rows. A row carries its index label `idx` and one field per column; a
\* `ratio` cell is kept as its text, which for dtype int64 is the canonical
\* text of the integer.
NoTable == [cols |-> <<>>, ratio_dtype |-> "absent", rows |-> <<>>]

\* pd.read_csv: header row, RangeIndex, and int64 for `ratio` only when every
\* cell is an integer; one non-numeric cell leaves the column as object.
read_csv(csv) ==
    LET hasRatio == Contains(csv.header, "ratio")
        numeric  == hasRatio /\ \A i \in DOMAIN csv.rows : IsNumeric(csv.rows[i].ratio)
        Cell(r)  == IF numeric THEN [r EXCEPT !.ratio = IntToStr(StrToInt(@))] ELSE r
    IN  [cols |-> csv.header,
         ratio_dtype |-> IF ~hasRatio THEN "absent"
                         ELSE IF numeric THEN "int64" ELSE "object",
         rows |-> [i \in DOMAIN csv.rows |-> [idx |-> i - 1] @@ Cell(csv.rows[i])]]

\* The exception lines 95-99 raise on a table, or "" when they succeed.
DeriveError(df) ==
    IF ~Contains(df.cols, "period") THEN "KeyError"
    ELSE IF \E i \in DOMAIN df.rows : ~IsIsoDate(df.rows[i].period) THEN "ValueError"
    ELSE ""

\* Lines 95-99: parse `period`, then add month, year, dayofweek, is_weekend.
Derive(df) ==
    LET Row(r) ==
            LET p == ParseDate(r.period)
            IN  [r EXCEPT !.period = p]
                @@ [month |-> p.m, year |-> p.y, dayofweek |-> DayName(p),
                    is_weekend |-> DayOfWeek(p) \in {5, 6}]
    IN  [df EXCEPT !.cols = @ \o <<"month", "year", "dayofweek", "is_weekend">>,
                   !.rows = [i \in DOMAIN @ |-> Row(@[i])]]

\* Lines 76-82: the first candidate that exists, "" for None.
DataDir(filesystem) ==
    IF PathExists(filesystem, possible_paths[1]) THEN possible_paths[1]
    ELSE IF PathExists(filesystem, possible_paths[2]) THEN possible_paths[2]
    ELSE ""

\* A check that passes when only one of the two lists is empty.
NothingFoundEither(s_files, g_files) == s_files = <<>> /\ g_files = <<>>

\* Line 87: not s_files or not g_files
NothingFound(s_files, g_files) == s_files = <<>> \/ g_files = <<>>

\* Lines 91-92: files[-1], the last element of the list as glob returned it.
Latest(files) == files[Len(files)]

ReturnNone == [kind |-> "none", exc |-> "", df_s |-> NoTable, df_g |-> NoTable]

Raise(e) == [kind |-> "raise", exc |-> e, df_s |-> NoTable, df_g |-> NoTable]

\* The body of load_sulbing_data for a given state of the filesystem, with
\* s_files and g_files the lists the two glob calls returned.
load_sulbing_data(filesystem, s_files, g_files) ==
    LET data_dir == DataDir(filesystem)
    IN  IF data_dir = "" THEN ReturnNone
        ELSE IF NothingFound(s_files, g_files) THEN ReturnNone
        ELSE IF s_files = <<>> \/ g_files = <<>> THEN Raise("IndexError")
        ELSE
          LET ReadFile(f) == read_csv(Csv(f, FilesIn(filesystem, data_dir)[f]))
              df_s == ReadFile(Latest(s_files))
              df_g == ReadFile(Latest(g_files))
          IN  IF DeriveError(df_s) # "" THEN Raise(DeriveError(df_s))
              ELSE IF DeriveError(df_g) # "" THEN Raise(DeriveError(df_g))
              ELSE [kind |-> "tables", exc |-> "",
                    df_s |-> Derive(df_s), df_g |-> Derive(df_g)]

\* ------------------------------------------------------ table operations

\* A float result: NaN, or the exact quotient num/den.
NaN == [nan |-> TRUE, num |-> 0, den |-> 1]

Num(n, d) == [nan |-> FALSE, num |-> n, den |-> d]

\* df[mask]: the rows whose mask entry is True, in their order.
RECURSIVE BoolIndex(_, _)
BoolIndex(rows, mask) ==
    IF rows = <<>> THEN <<>>
    ELSE (IF Head(mask) THEN <<Head(rows)>> ELSE <<>>)
         \o BoolIndex(Tail(rows), Tail(mask))

\* A filter that takes an empty selection to mean "no filter".
FilterOrAll(df, years) ==
    IF years = {} THEN df
    ELSE [df EXCEPT !.rows =
             BoolIndex(df.rows, [i \in DOMAIN df.rows |-> df.rows[i].year \in years])]

\* Lines 116-117: df[df['year'].isin(year_filter)]
FilterByYears(df, years) ==
    [df EXCEPT !.rows =
        BoolIndex(df.rows, [i \in DOMAIN df.rows |-> df.rows[i].year \in years])]

RECURSIVE SumRatio(_)
SumRatio(rows) ==
    IF rows = <<>> THEN 0 ELSE StrToInt(Head(rows).ratio) + SumRatio(Tail(rows))

RECURSIVE MaxRatio(_)
MaxRatio(rows) ==
    IF Len(rows) = 1 THEN StrToInt(rows[1].ratio)
    ELSE LET m == MaxRatio(Tail(rows))
             h == StrToInt(Head(rows).ratio)
         IN  IF h > m THEN h ELSE m

\* The exception df['ratio'].mean() / .max() raises, or "": a missing column
\* is a KeyError, and a non-empty object column of non-numeric text cannot be
\* summed to a number.
ReduceError(df) ==
    IF ~Contains(df.cols, "ratio") THEN "KeyError"
    ELSE IF df.ratio_dtype = "object" /\ df.rows # <<>> THEN "TypeError"
    ELSE ""

\* Series.mean(): NaN for an empty series.
Mean(rows) == IF rows = <<>> THEN NaN ELSE Num(SumRatio(rows), Len(rows))

\* Series.max(): NaN for an empty series.
Max(rows) == IF rows = <<>> THEN NaN ELSE Num(MaxRatio(rows), 1)

Pow10(k) == IF k = 1 THEN 10 ELSE IF k = 2 THEN 100 ELSE 1000

\* format(x, ".<places>f") of a non-negative float: "nan" for NaN, else the
\* value rounded to `places` decimals (no value of the model is an exact tie).
Format(x, places) ==
    IF x.nan THEN Chars("nan")
    ELSE LET scaled == (2 * x.num * Pow10(places) + x.den) \div (2 * x.den)
             whole  == scaled \div Pow10(places)
             frac   == IntToStr(scaled % Pow10(places))
             zeros  == [k \in 1..(places - Len(frac)) |-> "0"]
         IN  IntToStr(whole) \o <<".">> \o zeros \o frac

\* Series.corr(other): the pairs with the same index label in both series;
\* NaN under two pairs or with a constant series, else Pearson's r, kept as
\* the three sums that determine it (r = sxy / sqrt(sxx * syy)).
Corr(a, b) ==
    LET pairs == BoolIndex(a, [i \in DOMAIN a |-> \E j \in DOMAIN b : b[j].idx = a[i].idx])
        Y(r)  == StrToInt((CHOOSE q \in {b[j] : j \in DOMAIN b} : q.idx = r.idx).ratio)
        X(r)  == StrToInt(r.ratio)
        n     == Len(pairs)
        S(F(_)) == LET RECURSIVE Acc(_)
                       Acc(k) == IF k = 0 THEN 0 ELSE F(pairs[k]) + Acc(k - 1)
                   IN  Acc(n)
        XX(r) == X(r) * X(r)
        YY(r) == Y(r) * Y(r)
        XY(r) == X(r) * Y(r)
        sxx   == n * S(XX) - S(X) * S(X)
        syy   == n * S(YY) - S(Y) * S(Y)
        sxy   == n * S(XY) - S(X) * S(Y)
    IN  IF n < 2 \/ sxx = 0 \/ syy = 0
        THEN [nan |-> TRUE, sxy |-> 0, sxx |-> 0, syy |-> 0]
        ELSE [nan |-> FALSE, sxy |-> sxy, sxx |-> sxx, syy |-> syy]

\* groupby('dayofweek')['ratio'].mean(): one entry per weekday that has rows.
GroupMean(rows) ==
    [d \in {rows[i].dayofweek : i \in DOMAIN rows} |->
        Mean(BoolIndex(rows, [i \in DOMAIN rows |-> rows[i].dayofweek = d]))]

\* A reindex that keeps only the labels the series has.
ReindexPresent(series, labels) ==
    LET all == [i \in DOMAIN labels |->
                   [dayofweek |-> labels[i],
                    ratio |-> IF labels[i] \in DOMAIN series
                              THEN series[labels[i]] ELSE NaN]]
    IN  BoolIndex(all, [i \in DOMAIN labels |-> labels[i] \in DOMAIN series])

\* .reindex(labels).reset_index(): one row per label, in the order of
\* `labels`, NaN where the series has no entry.
Reindex(series, labels) ==
    [i \in DOMAIN labels |->
        [dayofweek |-> labels[i],
         ratio |-> IF labels[i] \in DOMAIN series THEN series[labels[i]] ELSE NaN]]

\* Line 184
day_avg(df) == Reindex(GroupMean(df.rows), DayNames)

\* Line 191, on the object df_s_filtered names: a `quarter` column is added.
AddQuarter(df) ==
    [df EXCEPT !.cols = @ \o <<"quarter">>,
               !.rows = [i \in DOMAIN df.rows |->
                            df.rows[i] @@ [quarter |-> Quarter(df.rows[i].period)]]]

\* Lines 192-193: groupby('quarter')['ratio'].sum(), quarters ascending, each
\* labelled str(quarter) + the two-syllable suffix (written "bungi" here).
q_sum(df) ==
    LET present == [q \in 1..4 |-> \E i \in DOMAIN df.rows : df.rows[i].quarter = q]
        all == [q \in 1..4 |->
                   [quarter |-> IntToStr(q) \o <<"bungi">>,
                    ratio |-> SumRatio(BoolIndex(df.rows,
                                 [i \in DOMAIN df.rows |-> df.rows[i].quarter = q]))]]
    IN  BoolIndex(all, present)

\* Line 207: inner join of the two (period, ratio) projections on period,
\* in the order of the left table.
RECURSIVE Merge(_, _)
Merge(left, right) ==
    IF left = <<>> THEN <<>>
    ELSE LET l == Head(left)
             hits == BoolIndex(right, [j \in DOMAIN right |-> right[j].period = l.period])
         IN  [j \in DOMAIN hits |->
                 [period |-> l.period, ratio_s |-> l.ratio, ratio_g |-> hits[j].ratio]]
             \o Merge(Tail(left), right)

\* Line 234: pd.concat([df_s_filtered, df_g_filtered]): the union of the
\* columns, the rows of the first then of the second with their index labels;
\* `quarter`, absent from the second, becomes a float column holding NaN there.
Concat(a, b) ==
    [cols |-> a.cols,
     ratio_dtype |-> a.ratio_dtype,
     rows |-> [i \in DOMAIN a.rows |->
                  [a.rows[i] EXCEPT !.quarter = Num(@, 1)]]
              \o [i \in DOMAIN b.rows |-> b.rows[i] @@ [quarter |-> NaN]]]

\* ------------------------------------------------------------- search

\* str() of a float cell: "nan", or the integer value with ".0".
FloatStr(x) == IF x.nan THEN Chars("nan") ELSE IntToStr(x.num) \o <<".", "0">>

\* display_df.astype(str): the text of one cell of the combined table.
CellStr(row, col) ==
    CASE col = "period"     -> DateStr(row.period)
      [] col = "ratio"      -> row.ratio
      [] col = "month"      -> IntToStr(row.month)
      [] col = "year"       -> IntToStr(row.year)
      [] col = "dayofweek"  -> Chars(row.dayofweek)
      [] col = "is_weekend" -> IF row.is_weekend THEN Chars("True") ELSE Chars("False")
      [] col = "quarter"    -> FloatStr(row.quarter)

\* re.compile of the pattern: an unbalanced parenthesis is an re.error.
PatternError(pat) ==
    IF \E i \in DOMAIN pat : pat[i] \in {"(", ")"} THEN "re.error" ELSE ""

\* Series.str.contains(pat, case=False) on one text: pat is a regular
\* expression (regex=True is the default) searched with re.IGNORECASE; "."
\* matches any character, every other character of the model's patterns
\* matches itself.
RegexSearch(pat, text) ==
    \E k \in 0..(Len(text) - Len(pat)) :
        \A j \in DOMAIN pat : pat[j] = "." \/ Lower(pat[j]) = Lower(text[k + j])

\* Line 236: the rows with a match in any column.
SearchMask(df, pat) ==
    [i \in DOMAIN df.rows |->
        \E c \in {df.cols[k] : k \in DOMAIN df.cols} :
            RegexSearch(pat, CellStr(df.rows[i], c))]

\* Line 241: to_csv(index=False).encode('utf-8-sig'): a byte-order mark, the
\* header, then one line of cell texts per row; NaN is written as "".
to_csv(df) ==
    [bom |-> TRUE,
     header |-> df.cols,
     lines |-> [i \in DOMAIN df.rows |->
                  [k \in DOMAIN df.cols |->
                      IF df.cols[k] = "quarter" /\ df.rows[i].quarter.nan
                      THEN <<>>
                      ELSE CellStr(df.rows[i], df.cols[k])]]]

\* -------------------------------------------------------------- state

\* Browser sessions of the one server process; each re-runs the script with
\* its own widget state, all share the st.cache_data memo.
Sessions == {"A", "B"}

\* options of the year multiselect (line 115)
YearOptions == {2024, 2025}

\* Texts typed into the search box.
Queries == {"", "sat", "0.5", "("}

VARIABLES
    fs,            \* the directories that exist and the files of "data"
    cache,         \* st.cache_data's entry for load_sulbing_data()
    pc,            \* per session: where its current script run stands
    year_filter,   \* per session: the multiselect's value
    search_query,  \* per session: the text input's value
    probe,         \* per session: the loader body's locals, if this run ran it
    env,           \* per session: the script's names -> the objects they name
    heap,          \* per session: the DataFrame objects of the current run
    out,           \* per session: the values the run handed to its elements
    rendered       \* per session: the elements the run has put on the page

vars == <<fs, cache, pc, year_filter, search_query, probe, env, heap, out, rendered>>

ObjIds == {"load_s", "load_g", "filt_s", "filt_g", "concat", "masked"}

Names == {"df_s", "df_g", "df_s_filtered", "df_g_filtered", "display_df"}

NoEnv == [n \in Names |-> "None"]

NoHeap == [o \in ObjIds |-> NoTable]

NoProbe ==
    [ran |-> FALSE, data_dir |-> "", s_files |-> <<>>, g_files |-> <<>>, read |-> <<>>]

NoCorr == [nan |-> TRUE, sxy |-> 0, sxx |-> 0, syy |-> 0]

NoCsv == [bom |-> FALSE, header |-> <<>>, lines |-> <<>>]

NoOut ==
    [m_mean_s |-> <<>>, m_mean_g |-> <<>>, m_max_s |-> <<>>, corr |-> NoCorr,
     day_avg |-> <<>>, q_sum |-> <<>>, combined |-> <<>>, csv |-> NoCsv]

EmptyCache == [kind |-> "empty", exc |-> "", df_s |-> NoTable, df_g |-> NoTable]

\* An element of the page: its kind, its name, and the source line that made it.
El(kind, name, line) == [kind |-> kind, name |-> name, line |-> line]

\* Lines 10-67, at the start of every run.
PageHead == <<El("page_config", "set_page_config", 10), El("markdown", "css", 18)>>

\* Every state of the filesystem the model considers: a directory that does
\* not exist holds no files.
FileSystems ==
    {[dirs |-> D, files |-> F] :
        D \in SUBSET {possible_paths[1], possible_paths[2]},
        F \in {G \in [FileNames -> {"absent", "ok", "noperiod", "noratio",
                                    "badnum", "baddate"}] :
                  \A f \in FileNames : G[f] \in Variants(f) \cup {"absent"}}}

DirHoldsFiles(filesystem) ==
    possible_paths[1] \in filesystem.dirs \/ filesystem.files = NoFiles

Init ==
    /\ fs \in {filesystem \in FileSystems : DirHoldsFiles(filesystem)}
    /\ cache = EmptyCache
    /\ pc = [s \in Sessions |-> "start"]
    /\ year_filter = [s \in Sessions |-> YearOptions]
    /\ search_query = [s \in Sessions |-> ""]
    /\ probe = [s \in Sessions |-> NoProbe]
    /\ env = [s \in Sessions |-> NoEnv]
    /\ heap = [s \in Sessions |-> NoHeap]
    /\ out = [s \in Sessions |-> NoOut]
    /\ rendered = [s \in Sessions |-> <<>>]

\* ------------------------------------------------------------ the loader

\* The lists one glob call can return in the chosen directory.
GlobOrders(filesystem, series) ==
    IF DataDir(filesystem) = "" THEN {<<>>}
    ELSE Orders(GlobMatches(filesystem, DataDir(filesystem), series))

\* A decorator that never finds an entry.
cache_miss(c) == FALSE

\* @st.cache_data (line 70): the call has no arguments, so the memo has one
\* entry; a returned value is stored, a raised exception is not.
cache_hit(c) == c.kind # "empty"

\* Lines 10-108: the page head, the (memoized) call of load_sulbing_data, and
\* the check of its result. st.cache_data hands every caller its own copy.
RunLoad(s) ==
    /\ pc[s] = "start"
    /\ \E s_files \in GlobOrders(fs, "s"), g_files \in GlobOrders(fs, "g") :
         LET hit == cache_hit(cache)
             res == IF hit THEN cache ELSE load_sulbing_data(fs, s_files, g_files)
         IN
         /\ cache' = IF hit \/ res.kind = "raise" THEN cache ELSE res
         /\ probe' = [probe EXCEPT ![s] =
                IF hit THEN NoProbe
                ELSE [ran |-> TRUE, data_dir |-> DataDir(fs),
                      s_files |-> s_files, g_files |-> g_files,
                      read |-> IF s_files # <<>> /\ g_files # <<>>
                               THEN <<Latest(s_files), Latest(g_files)>> ELSE <<>>]]
         /\ IF res.kind = "raise"
            THEN /\ pc' = [pc EXCEPT ![s] = "crashed"]
                 /\ rendered' = [rendered EXCEPT ![s] =
                        PageHead \o <<El("exception", res.exc, 104)>>]
                 /\ UNCHANGED <<env, heap>>
            ELSE IF res.kind = "none"
            THEN /\ pc' = [pc EXCEPT ![s] = "stopped"]
                 /\ rendered' = [rendered EXCEPT ![s] =
                        PageHead \o <<El("error", "st.error", 107)>>]
                 /\ UNCHANGED <<env, heap>>
            ELSE /\ pc' = [pc EXCEPT ![s] = "sidebar"]
                 /\ rendered' = [rendered EXCEPT ![s] = PageHead]
                 /\ heap' = [heap EXCEPT ![s]["load_s"] = res.df_s,
                                         ![s]["load_g"] = res.df_g]
                 /\ env' = [env EXCEPT ![s]["df_s"] = "load_s",
                                       ![s]["df_g"] = "load_g"]
    /\ UNCHANGED <<fs, year_filter, search_query, out>>

\* ----------------------------------------------------- the script's run

\* The object a filtered table is stored in when the filter works in place.
InPlace(src, site) == src

\* df[mask] builds a new DataFrame object; it never returns its operand.
FilterTarget(src, site) == site

\* Lines 111-120: the sidebar with the year multiselect, the two filtered
\* tables, and the page header.
Sidebar(s) ==
    /\ pc[s] = "sidebar"
    /\ LET e  == env[s]
           h  == heap[s]
           ts == FilterTarget(e.df_s, "filt_s")
           tg == FilterTarget(e.df_g, "filt_g")
           fS == FilterByYears(h[e.df_s], year_filter[s])
           fG == FilterByYears(h[e.df_g], year_filter[s])
       IN  /\ heap' = [heap EXCEPT ![s] = [[h EXCEPT ![ts] = fS] EXCEPT ![tg] = fG]]
           /\ env' = [env EXCEPT ![s]["df_s_filtered"] = ts,
                                 ![s]["df_g_filtered"] = tg]
    /\ rendered' = [rendered EXCEPT ![s] = @ \o
           <<El("image", "sidebar", 111), El("title", "sidebar", 112),
             El("markdown", "sidebar", 113), El("multiselect", "year_filter", 115),
             El("markdown", "main-header", 120)>>]
    /\ pc' = [pc EXCEPT ![s] = "metrics"]
    /\ UNCHANGED <<fs, cache, year_filter, search_query, probe, out>>

\* Lines 123-140: the four metric cards, in order; the argument of st.metric
\* is evaluated first, so a raise leaves that card and the later ones out.
Metrics(s) ==
    /\ pc[s] = "metrics"
    /\ LET dS == heap[s][env[s].df_s_filtered]
           dG == heap[s][env[s].df_g_filtered]
           eS == ReduceError(dS)
           eG == ReduceError(dG)
           c1 == <<El("columns", "col1..col4", 123), El("markdown", "metric-card", 125)>>
           m1 == c1 \o <<El("metric", "mean_s", 126), El("markdown", "card-end", 127),
                         El("markdown", "metric-card", 129)>>
           m2 == m1 \o <<El("metric", "mean_g", 130), El("markdown", "card-end", 131),
                         El("markdown", "metric-card", 133),
                         El("metric", "max_s", 134), El("markdown", "card-end", 135),
                         El("markdown", "metric-card", 137),
                         El("metric", "corr", 139), El("markdown", "card-end", 140),
                         El("markdown", "rule", 142)>>
       IN  IF eS # ""
           THEN /\ rendered' = [rendered EXCEPT ![s] = @ \o c1 \o <<El("exception", eS, 126)>>]
                /\ pc' = [pc EXCEPT ![s] = "crashed"]
                /\ out' = out
           ELSE IF eG # ""
           THEN /\ rendered' = [rendered EXCEPT ![s] = @ \o m1 \o <<El("exception", eG, 130)>>]
                /\ pc' = [pc EXCEPT ![s] = "crashed"]
                /\ out' = [out EXCEPT ![s].m_mean_s = Format(Mean(dS.rows), 2)]
           ELSE /\ rendered' = [rendered EXCEPT ![s] = @ \o m2]
                /\ pc' = [pc EXCEPT ![s] = "tab1"]
                /\ out' = [out EXCEPT ![s].m_mean_s = Format(Mean(dS.rows), 2),
                                      ![s].m_mean_g = Format(Mean(dG.rows), 2),
                                      ![s].m_max_s = Format(Max(dS.rows), 1),
                                      ![s].corr = Corr(dS.rows, dG.rows)]
    /\ UNCHANGED <<fs, cache, year_filter, search_query, probe, env, heap>>

\* Lines 145-169: the tab bar and the time-series chart of both filtered tables.
Tab1(s) ==
    /\ pc[s] = "tab1"
    /\ rendered' = [rendered EXCEPT ![s] = @ \o
           <<El("tabs", "tab1..tab4", 145), El("subheader", "tab1", 149),
             El("chart", "fig_line", 164), El("markdown", "tab1", 166)>>]
    /\ pc' = [pc EXCEPT ![s] = "tab2"]
    /\ UNCHANGED <<fs, cache, year_filter, search_query, probe, env, heap, out>>

\* Lines 172-198: box plot, weekday means, then the `quarter` column set on
\* the object df_s_filtered names, the quarter sums and the pie chart.
Tab2(s) ==
    /\ pc[s] = "tab2"
    /\ LET o  == env[s].df_s_filtered
           dQ == AddQuarter(heap[s][o])
       IN  /\ heap' = [heap EXCEPT ![s][o] = dQ]
           /\ out' = [out EXCEPT ![s].day_avg = day_avg(heap[s][o]),
                                 ![s].q_sum = q_sum(dQ)]
    /\ rendered' = [rendered EXCEPT ![s] = @ \o
           <<El("subheader", "col_a", 176), El("chart", "fig_box", 180),
             El("subheader", "col_b", 183), El("chart", "fig_bar", 188),
             El("subheader", "quarter", 190), El("chart", "fig_pie", 198)>>]
    /\ pc' = [pc EXCEPT ![s] = "tab3"]
    /\ UNCHANGED <<fs, cache, year_filter, search_query, probe, env>>

\* Lines 201-227: the merge on period and the scatter, histogram and violin.
Tab3(s) ==
    /\ pc[s] = "tab3"
    /\ out' = [out EXCEPT ![s].combined =
           Merge(heap[s][env[s].df_s_filtered].rows, heap[s][env[s].df_g_filtered].rows)]
    /\ rendered' = [rendered EXCEPT ![s] = @ \o
           <<El("subheader", "col_c", 205), El("chart", "fig_scatter", 212),
             El("subheader", "col_d", 215), El("chart", "fig_hist", 219),
             El("subheader", "weekend", 221), El("chart", "fig_violin", 227)>>]
    /\ pc' = [pc EXCEPT ![s] = "tab4"]
    /\ UNCHANGED <<fs, cache, year_filter, search_query, probe, env, heap>>

\* Lines 230-251: the search box, the combined table (masked when the query
\* is not empty), its display, its CSV export, and the footer.
Tab4(s) ==
    /\ pc[s] = "tab4"
    /\ LET pat  == Chars(search_query[s])
           cat  == Concat(heap[s][env[s].df_s_filtered], heap[s][env[s].df_g_filtered])
           head == <<El("subheader", "tab4", 231), El("text_input", "search_query", 232)>>
       IN  IF pat # <<>> /\ PatternError(pat) # ""
           THEN /\ heap' = [heap EXCEPT ![s]["concat"] = cat]
                /\ env' = [env EXCEPT ![s]["display_df"] = "concat"]
                /\ rendered' = [rendered EXCEPT ![s] =
                       @ \o head \o <<El("exception", PatternError(pat), 236)>>]
                /\ pc' = [pc EXCEPT ![s] = "crashed"]
                /\ out' = out
           ELSE LET shown == IF pat = <<>> THEN cat
                             ELSE [cat EXCEPT !.rows =
                                      BoolIndex(cat.rows, SearchMask(cat, pat))]
                    obj   == IF pat = <<>> THEN "concat" ELSE "masked"
                IN  /\ heap' = [heap EXCEPT ![s] =
                           [[heap[s] EXCEPT !["concat"] = cat] EXCEPT ![obj] = shown]]
                    /\ env' = [env EXCEPT ![s]["display_df"] = obj]
                    /\ rendered' = [rendered EXCEPT ![s] = @ \o head \o
                           <<El("dataframe", "display_df", 238),
                             El("download_button", "csv", 242),
                             El("markdown", "rule", 250), El("markdown", "footer", 251)>>]
                    /\ pc' = [pc EXCEPT ![s] = "done"]
                    /\ out' = [out EXCEPT ![s].csv = to_csv(shown)]
    /\ UNCHANGED <<fs, cache, year_filter, search_query, probe>>

\* -------------------------------------------------------- interactions

Terminal == {"done", "stopped", "crashed"}

Shown(s, kind) == \E i \in DOMAIN rendered[s] : rendered[s][i].kind = kind

\* A new script run of session s: the page and the script's names start over.
Restart(s) ==
    /\ pc' = [pc EXCEPT ![s] = "start"]
    /\ probe' = [probe EXCEPT ![s] = NoProbe]
    /\ env' = [env EXCEPT ![s] = NoEnv]
    /\ heap' = [heap EXCEPT ![s] = NoHeap]
    /\ out' = [out EXCEPT ![s] = NoOut]
    /\ rendered' = [rendered EXCEPT ![s] = <<>>]

\* The user changes the year multiselect of a finished run (line 115).
ChangeYears(s, years) ==
    /\ pc[s] \in Terminal
    /\ Shown(s, "multiselect")
    /\ years # year_filter[s]
    /\ year_filter' = [year_filter EXCEPT ![s] = years]
    /\ Restart(s)
    /\ UNCHANGED <<fs, cache, search_query>>

\* The user changes the search text of a finished run (line 232).
ChangeSearch(s, q) ==
    /\ pc[s] \in Terminal
    /\ Shown(s, "text_input")
    /\ q # search_query[s]
    /\ search_query' = [search_query EXCEPT ![s] = q]
    /\ Restart(s)
    /\ UNCHANGED <<fs, cache, year_filter>>

\* The user asks for a rerun; the widgets keep their values.
Rerun(s) ==
    /\ pc[s] \in Terminal
    /\ Restart(s)
    /\ UNCHANGED <<fs, cache, year_filter, search_query>>

\* ---------------------------------------------------- the environment

MakeDir(d) ==
    /\ d \notin fs.dirs
    /\ fs' = [fs EXCEPT !.dirs = @ \cup {d}]
    /\ UNCHANGED <<cache, pc, year_filter, search_query, probe, env, heap, out, rendered>>

RemoveDir(d) ==
    /\ d \in fs.dirs
    /\ fs' = [dirs |-> fs.dirs \ {d},
              files |-> IF d = possible_paths[1] THEN NoFiles ELSE fs.files]
    /\ UNCHANGED <<cache, pc, year_filter, search_query, probe, env, heap, out, rendered>>

WriteFile(f, variant) ==
    /\ possible_paths[1] \in fs.dirs
    /\ fs.files[f] # variant
    /\ fs' = [fs EXCEPT !.files[f] = variant]
    /\ UNCHANGED <<cache, pc, year_filter, search_query, probe, env, heap, out, rendered>>

DeleteFile(f) ==
    /\ fs.files[f] # "absent"
    /\ fs' = [fs EXCEPT !.files[f] = "absent"]
    /\ UNCHANGED <<cache, pc, year_filter, search_query, probe, env, heap, out, rendered>>

\* ------------------------------------------------------- specifications

Run(s) ==
    \/ RunLoad(s)
    \/ Sidebar(s)
    \/ Metrics(s)
    \/ Tab1(s)
    \/ Tab2(s)
    \/ Tab3(s)
    \/ Tab4(s)

\* One session, every search text, and a filesystem that changes under the
\* running process.
Next ==
    \/ Run("A")
    \/ \E years \in SUBSET YearOptions : ChangeYears("A", years)
    \/ \E q \in Queries : ChangeSearch("A", q)
    \/ Rerun("A")
    \/ \E d \in {possible_paths[1], possible_paths[2]} : MakeDir(d)
    \/ \E d \in {possible_paths[1], possible_paths[2]} : RemoveDir(d)
    \/ \E f \in FileNames : \E variant \in Variants(f) : WriteFile(f, variant)
    \/ \E f \in FileNames : DeleteFile(f)

Spec == Init /\ [][Next]_vars

\* Two sessions of one process over a "data" directory that stays as it is,
\* whatever it holds.
SessionQueries == {"", "sat"}

InitSessions ==
    /\ Init
    /\ fs.dirs = {possible_paths[1]}

NextSessions ==
    \E s \in Sessions :
        \/ Run(s)
        \/ \E years \in SUBSET YearOptions : ChangeYears(s, years)
        \/ \E q \in SessionQueries : ChangeSearch(s, q)
        \/ Rerun(s)

SpecSessions == InitSessions /\ [][NextSessions]_vars

\* --------------------------------------------------------------- claims

Range(seq) == {seq[i] : i \in DOMAIN seq}

\* Code points of the characters that occur in file names (ASCII order).
Ord(c) ==
    IF c = "." THEN 46
    ELSE IF IsDigit(c) THEN 48 + DigitVal(c)
    ELSE IF c = "_" THEN 95
    ELSE 97

\* Python's str ordering: first differing character decides, a proper prefix
\* is smaller.
RECURSIVE StrLess(_, _)
StrLess(a, b) ==
    IF b = <<>> THEN FALSE
    ELSE IF a = <<>> THEN TRUE
    ELSE IF Ord(Head(a)) # Ord(Head(b)) THEN Ord(Head(a)) < Ord(Head(b))
    ELSE StrLess(Tail(a), Tail(b))

\* The part of the path that differs between two matches of one pattern.
NameText(f) == Chars(f.tag) \o <<".", "c", "s", "v">>

\* The name that is greatest in Python's string order.
LexMax(S) == CHOOSE f \in S : \A g \in S \ {f} : StrLess(NameText(g), NameText(f))

\* The step of session s that executes lines 10-108.
LoadStep(s) == pc[s] = "start" /\ pc'[s] # "start"

\* The current filesystem gives the loader no directory, or no file for one
\* of the two series.
Missing(filesystem) ==
    \/ DataDir(filesystem) = ""
    \/ GlobMatches(filesystem, DataDir(filesystem), "s") = {}
    \/ GlobMatches(filesystem, DataDir(filesystem), "g") = {}

\* A plain substring test, case folded: every pattern character is literal.
LiteralSearch(pat, text) ==
    \E k \in 0..(Len(text) - Len(pat)) :
        \A j \in DOMAIN pat : Lower(pat[j]) = Lower(text[k + j])

DashboardKinds == {"metric", "chart", "dataframe", "download_button"}

NoDashboard(r) == \A i \in DOMAIN r : r[i].kind \notin DashboardKinds

\* The page shows one st.error message and nothing of the dashboard.
OnlyError(r) ==
    /\ Cardinality({i \in DOMAIN r : r[i].kind = "error"}) = 1
    /\ \A i \in DOMAIN r : r[i].kind # "exception"
    /\ NoDashboard(r)

\* The page shows one message, an st.error or an uncaught exception, and
\* nothing of the dashboard.
OneMessage(r) ==
    /\ Cardinality({i \in DOMAIN r : r[i].kind \in {"error", "exception"}}) = 1
    /\ NoDashboard(r)

\* C1: whenever both globs match, the file the loader reads for each series
\* is the lexicographically greatest of the matches, whatever the order of
\* the enumeration.
C1_ReadsLexMax ==
    \A s \in Sessions :
        probe[s].ran /\ probe[s].read # <<>> =>
            /\ probe[s].read[1] = LexMax(Range(probe[s].s_files))
            /\ probe[s].read[2] = LexMax(Range(probe[s].g_files))

\* C2 as stated: a run that starts while no candidate directory exists, or
\* while the chosen directory lacks a file for either series, shows exactly
\* one error, stops, and renders no metric, chart, table or download.
C2_MissingAlwaysStops ==
    [][\A s \in Sessions :
          LoadStep(s) /\ Missing(fs) =>
              pc'[s] = "stopped" /\ OnlyError(rendered'[s])]_vars

\* C2 amended: the same, for a run that does not get tables loaded earlier
\* from the cache; and a stopped run's page is the one error and nothing of
\* the dashboard.
C2_MissingStopsUnlessCached ==
    [][\A s \in Sessions :
          /\ LoadStep(s) /\ Missing(fs) /\ cache.kind # "tables" =>
                 pc'[s] = "stopped" /\ OnlyError(rendered'[s])
          /\ pc'[s] = "stopped" => OnlyError(rendered'[s])]_vars

C2_Witness ==
    \E s \in Sessions :
        /\ pc[s] = "stopped"
        /\ probe[s].ran
        /\ probe[s].data_dir # ""
        /\ probe[s].s_files # <<>>
        /\ probe[s].g_files = <<>>
        /\ OnlyError(rendered[s])

\* C3: a run whose loader selects a file without `period` or without `ratio`,
\* or with a malformed date or number, ends at the load step with a single
\* message and renders nothing of the dashboard.
C3_MalformedAborts ==
    [][\A s \in Sessions :
          /\ LoadStep(s)
          /\ probe'[s].ran
          /\ probe'[s].read # <<>>
          /\ \E k \in 1..2 :
                 FilesIn(fs, probe'[s].data_dir)[probe'[s].read[k]] # "ok"
          => pc'[s] \in {"stopped", "crashed"} /\ OneMessage(rendered'[s])]_vars

\* C4: the filtered table of each series holds only rows whose year is
\* selected, holds every such row of the loaded table, keeps them in the
\* loaded table's order, and is empty for the empty selection.
C4_FilterByYears ==
    \A s \in Sessions :
        env[s].df_s_filtered # "None" =>
            \A n \in {"df_s", "df_g"} :
                LET src == heap[s][env[s][n]]
                    flt == heap[s][env[s][IF n = "df_s" THEN "df_s_filtered"
                                          ELSE "df_g_filtered"]]
                IN  /\ \A i \in DOMAIN flt.rows : flt.rows[i].year \in year_filter[s]
                    /\ \A j \in DOMAIN src.rows :
                           src.rows[j].year \in year_filter[s] =>
                               \E i \in DOMAIN flt.rows : flt.rows[i].idx = src.rows[j].idx
                    /\ \A i \in DOMAIN flt.rows :
                           \E j \in DOMAIN src.rows :
                               /\ flt.rows[i].idx = src.rows[j].idx
                               /\ \A k \in DOMAIN src.cols :
                                      flt.rows[i][src.cols[k]] = src.rows[j][src.cols[k]]
                    /\ \A i, k \in DOMAIN flt.rows :
                           i < k => flt.rows[i].idx < flt.rows[k].idx
                    /\ year_filter[s] = {} => flt.rows = <<>>

C4_Witness ==
    \E s \in Sessions :
        /\ env[s].df_s_filtered # "None"
        /\ year_filter[s] = {}
        /\ heap[s][env[s].df_s].rows # <<>>
        /\ heap[s][env[s].df_s_filtered].rows = <<>>

\* C5: once the load has returned tables, no exception comes from the metric
\* lines, for any year selection; and the mean and max of an empty filtered
\* table are shown as "nan".
C5_MetricsNeverRaise ==
    \A s \in Sessions :
        /\ \A i \in DOMAIN rendered[s] :
               rendered[s][i].kind = "exception" => rendered[s][i].line \notin 123..140
        /\ pc[s] \in {"tab1", "tab2", "tab3", "tab4", "done"}
           /\ heap[s][env[s].df_s_filtered].rows = <<>>
           => out[s].m_mean_s = Chars("nan") /\ out[s].m_max_s = Chars("nan")

\* The part of C5 that the code does satisfy: with an integer `ratio` column
\* in both loaded tables, the metric lines raise for no year selection.
C5_IntegerRatioNeverRaises ==
    \A s \in Sessions :
        /\ env[s].df_s # "None"
        /\ heap[s][env[s].df_s].ratio_dtype = "int64"
        /\ heap[s][env[s].df_g].ratio_dtype = "int64"
        => \A i \in DOMAIN rendered[s] :
               rendered[s][i].kind = "exception" => rendered[s][i].line \notin 123..140

BarShown(s) == \E i \in DOMAIN rendered[s] : rendered[s][i].name = "fig_bar"

\* C6: the weekday aggregation has exactly the 7 buckets Monday..Sunday in
\* that order; a weekday without rows in the filtered primary table has NaN,
\* a weekday with rows has the mean of their ratio values.
C6_SevenWeekdays ==
    \A s \in Sessions :
        BarShown(s) =>
            LET rows == heap[s][env[s].df_s_filtered].rows
                agg  == out[s].day_avg
            IN  /\ Len(agg) = 7
                /\ \A k \in 1..7 :
                       LET of == {i \in DOMAIN rows : rows[i].dayofweek = DayNames[k]}
                           sel == BoolIndex(rows, [i \in DOMAIN rows |-> i \in of])
                       IN  /\ agg[k].dayofweek = DayNames[k]
                           /\ agg[k].ratio.nan <=> of = {}
                           /\ of # {} =>
                                  agg[k].ratio.num * Cardinality(of)
                                      = SumRatio(sel) * agg[k].ratio.den

C6_Witness ==
    \E s \in Sessions :
        /\ BarShown(s)
        /\ \E k \in 1..7 : out[s].day_avg[k].ratio.nan
        /\ \E k \in 1..7 : ~out[s].day_avg[k].ratio.nan

\* C7: the displayed table holds only rows with a field that contains the
\* query as a literal substring, case-insensitively; for the empty query it
\* is the combined table unchanged.
C7_LiteralSubstring ==
    \A s \in Sessions :
        pc[s] = "done" =>
            LET shown == heap[s][env[s].display_df]
                pat   == Chars(search_query[s])
            IN  /\ pat = <<>> => shown = heap[s]["concat"]
                /\ \A i \in DOMAIN shown.rows :
                       \E k \in DOMAIN shown.cols :
                           LiteralSearch(pat, CellStr(shown.rows[i], shown.cols[k]))

\* C8: once the cache holds a result, no step runs the loader body again or
\* changes the cached result, whatever happens to the filesystem, and a run
\* that starts gets tables equal to the cached ones.
C8_LoadedOnce ==
    [][cache.kind # "empty" =>
          /\ cache' = cache
          /\ \A s \in Sessions :
                 /\ probe'[s].ran => probe[s].ran
                 /\ LoadStep(s) /\ cache.kind = "tables" =>
                        /\ pc'[s] = "sidebar"
                        /\ heap'[s][env'[s].df_s] = cache.df_s
                        /\ heap'[s][env'[s].df_g] = cache.df_g]_vars

C8_Witness ==
    /\ cache.kind = "tables"
    /\ DataDir(fs) = ""
    /\ \E s \in Sessions : pc[s] = "done" /\ ~probe[s].ran

\* C9: no step of a run changes the rows or the columns of a table the load
\* step gave it.
C9_LoadedTablesUnchanged ==
    [][\A s \in Sessions :
          env[s].df_s # "None" /\ env'[s].df_s # "None" =>
              /\ heap'[s][env'[s].df_s] = heap[s][env[s].df_s]
              /\ heap'[s][env'[s].df_g] = heap[s][env[s].df_g]]_vars

C9_Witness ==
    \E s \in Sessions :
        /\ pc[s] = "done"
        /\ search_query[s] # ""
        /\ Contains(heap[s][env[s].df_s_filtered].cols, "quarter")
        /\ ~Contains(heap[s][env[s].df_s].cols, "quarter")
        /\ Len(heap[s][env[s].df_s_filtered].rows) < Len(heap[s][env[s].df_s].rows)
        /\ heap[s][env[s].df_s] = cache.df_s

\* The run's call of load_sulbing_data returned (it did not raise).
LoadReturned(s) ==
    \A i \in DOMAIN rendered[s] :
        ~(rendered[s][i].kind = "exception" /\ rendered[s][i].line = 104)

\* C10: two sessions whose runs have ended, each with a result of the load,
\* with the same year selection and the same search text, have produced the
\* same outputs.
C10_SameInputsSameOutputs ==
    \A a, b \in Sessions :
        /\ pc[a] \in Terminal /\ pc[b] \in Terminal
        /\ LoadReturned(a) /\ LoadReturned(b)
        /\ year_filter[a] = year_filter[b]
        /\ search_query[a] = search_query[b]
        => /\ out[a] = out[b]
           /\ rendered[a] = rendered[b]
           /\ env[a] = env[b]
           /\ \A o \in ObjIds : heap[a][o] = heap[b][o]

C10_Witness ==
    /\ pc["A"] = "done" /\ pc["B"] = "done"
    /\ year_filter["A"] = {2024} /\ year_filter["B"] = {2024}
    /\ search_query["A"] = "sat" /\ search_query["B"] = "sat"
    /\ out["A"].csv.lines # <<>>
    /\ out["A"] = out["B"]

====
